---- MODULE Spec2Model ----
(***************************************************************************)
(* Model of fast_grow: the celery task grow (tasks.py) running             *)
(* FastGrowWrapper.grow (tool_wrappers/fast_grow_wrapper.py) next to the   *)
(* external fast grow binary, which writes *.sdf result files into the     *)
(* temporary results directory while the wrapper polls and ingests them.   *)
(***************************************************************************)
EXTENDS Integers, Sequences, FiniteSets, TLC

\* ------------------------------------------------------------ bounds
\* Number of result files the external binary may create.
MaxFiles == 3
\* Number of records the external binary may write in total.
MaxWrites == 3

\* Number of fragments of the file that one add_hits call is applied to.
MaxDataLen == 2

\* Number of result files each binary may create when two growings run.
MaxJobFiles == 2

\* ------------------------------------------------------------ domains
\* Texts the binary may write as the value of the Score property.
ScoreTexts == {"12.5", "n/a"}
\* Exit codes of the binary: killed by a signal (-9), success, failure.
ExitCodes == {-9, 0, 1}

\* Names of the complexes of an ensemble (the fixtures use 4agn and 4agm).
Ensembles == {<<"4agn">>, <<"4agn", "4agm">>}
\* The ensemble of the growing in the runs of grow with the binary.
RunEnsemble == <<"4agn">>

VARIABLES
    ensemble,     \* names of growing.ensemble.complex_set
    pc,           \* position of the control thread in tasks.grow / FastGrowWrapper.grow
    status,       \* growing.status as last saved
    proc,         \* the external process: "none", "running", "exited"
    exitcode,     \* exit code of the external process once it exited
    returncode,   \* process.returncode: {} is None, {c} is the code seen by poll()
    files,        \* results directory: files[f] is the sequence of records in file f
    seen,         \* the local set `seen` of grow
    todo,         \* files of the current glob listing not yet iterated
    drain,        \* TRUE once the loop at lines 48-52 was left by break
    txnOpen,      \* a transaction.atomic() block is open
    pending,      \* hits saved inside the open transaction
    committed,    \* hits visible in the store
    err,          \* the exception propagating out of FastGrowWrapper.grow
    raised,       \* the exception tasks.grow re-raised to its caller
    ingestCount,  \* history: per file, number of completed add_hits calls
    readLen,      \* history: per file, number of records add_hits read
    passStartSeen,\* history: value of seen when the current pass began
    passesAfterExit, \* history: process_hits calls begun after poll() saw the exit
    failed,       \* history: <<file, index>> of the record whose extraction raised
    yielded,      \* history: the files the running for loop of line 86 yielded as new, in order
    disk,         \* two growings: the result files on disk, [dir, name, writer]
    jpc,          \* two growings: per grow invocation, its position
    jseen,        \* two growings: per grow invocation, its local set `seen`
    jtodo,        \* two growings: per grow invocation, the listing being iterated
    jhits         \* two growings: the hits saved, [growing, file]

vars == <<ensemble, pc, status, proc, exitcode, returncode, files, seen, todo, drain,
          txnOpen, pending, committed, err, raised, ingestCount, readLen,
          passStartSeen, passesAfterExit, failed, yielded,
          disk, jpc, jseen, jtodo, jhits>>

\* The state of one run of grow with its binary.
runVars == <<ensemble, pc, status, proc, exitcode, returncode, files, seen, todo,
             drain, txnOpen, pending, committed, err, raised, ingestCount,
             readLen, passStartSeen, passesAfterExit, failed, yielded>>

\* The state of two runs of grow in one worker process.
jobVars == <<disk, jpc, jseen, jtodo, jhits>>

\* The two growings whose grow tasks run at the same time.
Jobs == {1, 2}

FileIds == 1..MaxFiles

\* ------------------------------------------------------------ helpers
\* Status of a Growing when the task picks it up.
InitStatus == "PENDING"

\* float(text): defined for numeric literals (value in tenths), raises otherwise.
IsFloatLiteral(text) == text \in {"12.5", "8.1", "5.0"}

Float(text) ==
    CASE text = "12.5" -> 125
      [] text = "8.1" -> 81
      [] text = "5.0" -> 50

\* Files currently in the results directory (glob('*.sdf')).
Glob == DOMAIN files

\* Total number of records written so far.
RECURSIVE SumLen(_, _)
SumLen(fs, n) == IF n = 0 THEN 0 ELSE Len(fs[n]) + SumLen(fs, n - 1)

Written == SumLen(files, Len(files))

\* One record of a result file: its property blocks in the order written,
\* and whether the delimiter line $$$$ was written after it.
Rec(blocks, term) == [props |-> blocks, term |-> term]

Block(key, value) == [key |-> key, value |-> value]

\* str.upper() on the names of the complexes.
Upper(name) ==
    CASE name = "4agn" -> "4AGN"
      [] name = "4agm" -> "4AGM"
      [] OTHER -> name

\* get_mol_string_prop with cast_to=float, lines 143-150: the first block
\* whose key is prop decides; its text is cast, which raises on a text that
\* is no numeric literal; without such a block the result is None (<<>>).
RECURSIVE GetPropFrom(_, _, _)
GetPropFrom(prop, blocks, i) ==
    IF i > Len(blocks)
    THEN [raises |-> FALSE, value |-> <<>>]
    ELSE IF blocks[i].key # prop
         THEN GetPropFrom(prop, blocks, i + 1)
         ELSE IF ~IsFloatLiteral(blocks[i].value)
              THEN [raises |-> TRUE, value |-> <<>>]
              ELSE [raises |-> FALSE, value |-> <<Float(blocks[i].value)>>]

GetMolStringProp(prop, mol_string) == GetPropFrom(prop, mol_string.props, 1)

\* Line 102: a fragment that is empty after strip() is dropped.
IsBlank(fragment) == fragment.props = <<>>

\* Line 102: m + '$$$$\n', every fragment kept gets the delimiter appended.
MolString(fragment) == [fragment EXCEPT !.term = TRUE]

\* Mutant of ExtractsEnsembleScores: the scores are extracted for every ensemble.
ExtractsEnsembleScoresAlways(n) == n >= 1

\* Line 107: growing.ensemble.complex_set.count() > 1.
ExtractsEnsembleScores(n) == n > 1

Members == {ensemble[k] : k \in DOMAIN ensemble}

\* Lines 106-110: the mapping from complex name to the float of the block
\* named by the upper-case name, None (<<>>) where the record has no such block.
EnsembleScores(mol_string) ==
    IF ExtractsEnsembleScores(Len(ensemble))
    THEN [n \in Members |-> GetMolStringProp(Upper(n), mol_string).value]
    ELSE <<>>

\* Lines 108-110: one of the casts of the member scores raises.
EnsembleScoresRaise(mol_string) ==
    /\ ExtractsEnsembleScores(Len(ensemble))
    /\ \E n \in Members : GetMolStringProp(Upper(n), mol_string).raises

\* hit.save(), line 119: the score column takes no NULL.
SaveRaises(score) == score = <<>>

\* add_hits, lines 100-119: the fragments of the data read are turned into
\* hits and saved one after the other; the float cast of Score (or of a
\* member score) raises on the first record whose text is no numeric literal.
RECURSIVE AddHitsFrom(_, _, _, _)
AddHitsFrom(f, data, i, saved) ==
    IF i > Len(data)
    THEN [ok |-> TRUE, saved |-> saved, at |-> 0, error |-> "none"]
    ELSE IF IsBlank(data[i])
    THEN AddHitsFrom(f, data, i + 1, saved)
    ELSE IF \/ GetMolStringProp("Score", MolString(data[i])).raises
            \/ EnsembleScoresRaise(MolString(data[i]))
    THEN [ok |-> FALSE, saved |-> saved, at |-> i, error |-> "CastError"]
    ELSE IF SaveRaises(GetMolStringProp("Score", MolString(data[i])).value)
    THEN [ok |-> FALSE, saved |-> saved, at |-> i, error |-> "IntegrityError"]
    ELSE AddHitsFrom(f, data, i + 1,
             Append(saved,
                    [file |-> f, idx |-> i,
                     score |-> GetMolStringProp("Score", MolString(data[i])).value[1],
                     ensemble_scores |-> EnsembleScores(MolString(data[i])),
                     file_string |-> MolString(data[i])]))

AddHits(f, data) == AddHitsFrom(f, data, 1, <<>>)

\* Mutant of IsNew: the membership test of line 87 is dropped.
IsNewAlways(f, seenFiles) == TRUE

\* Line 87: a listed file is ingested when it is not in seen_files.
IsNew(f, seenFiles) == f \notin seenFiles

\* Mutant of MarkSeen: line 89 is dropped.
MarkSeenNot(seenFiles, f) == seenFiles

\* Line 89: seen_files.add(hit_file).
MarkSeen(seenFiles, f) == seenFiles \cup {f}

\* Mutant of Commit: what the block saved is lost when it is left.
CommitNothing(store, saved) == store

\* transaction.atomic() left normally: everything saved in the block is committed.
Commit(store, saved) == store \o saved

\* Mutant of Rollback: no transaction, every save is committed at once.
RollbackNothing(store, saved) == store \o saved

\* transaction.atomic() left by an exception: everything saved in the block is undone.
Rollback(store, saved) == store

\* Line 55: the exit codes for which CalledProcessError is raised.
ReturncodeRaises(rc) == rc > 0

\* Number of occurrences of hit <<f, i>> in a sequence of hits.
RECURSIVE CountHit(_, _, _)
CountHit(s, f, i) ==
    IF s = <<>> THEN 0
    ELSE (IF Head(s).file = f /\ Head(s).idx = i THEN 1 ELSE 0) + CountHit(Tail(s), f, i)

\* ------------------------------------------------------------ initial state
Init ==
    /\ ensemble = RunEnsemble
    /\ pc = "Popen"
    /\ status = InitStatus
    /\ proc = "none"
    /\ exitcode = 0
    /\ returncode = {}
    /\ files = <<>>
    /\ seen = {}
    /\ todo = {}
    /\ drain = FALSE
    /\ txnOpen = FALSE
    /\ pending = <<>>
    /\ committed = <<>>
    /\ err = "none"
    /\ raised = "none"
    /\ ingestCount = [f \in FileIds |-> 0]
    /\ readLen = [f \in FileIds |-> 0]
    /\ passStartSeen = {}
    /\ passesAfterExit = 0
    /\ failed = <<>>
    /\ yielded = <<>>
    /\ disk = {}
    /\ jpc = [j \in Jobs |-> "process_hits"]
    /\ jseen = [j \in Jobs |-> {}]
    /\ jtodo = [j \in Jobs |-> {}]
    /\ jhits = {}

\* ------------------------------------------------------------ external process
controlVars == <<ensemble, pc, status, returncode, seen, todo, drain, txnOpen, pending,
                 committed, err, raised, ingestCount, readLen, passStartSeen,
                 passesAfterExit, failed, yielded>>

\* The binary creates a new, still empty, result file.
ProdCreate ==
    /\ proc = "running"
    /\ Len(files) < MaxFiles
    /\ files' = Append(files, <<>>)
    /\ UNCHANGED <<proc, exitcode>>
    /\ UNCHANGED controlVars
    /\ UNCHANGED jobVars

\* The binary appends one record to a result file.
ProdAppend ==
    /\ proc = "running"
    /\ Written < MaxWrites
    /\ \E f \in DOMAIN files, s \in ScoreTexts :
          files' = [files EXCEPT ![f] = Append(@, Rec(<<Block("Score", s)>>, TRUE))]
    /\ UNCHANGED <<proc, exitcode>>
    /\ UNCHANGED controlVars
    /\ UNCHANGED jobVars

\* The binary terminates.
ProdExit ==
    /\ proc = "running"
    /\ \E c \in ExitCodes : exitcode' = c
    /\ proc' = "exited"
    /\ UNCHANGED files
    /\ UNCHANGED controlVars
    /\ UNCHANGED jobVars

\* ------------------------------------------------------------ FastGrowWrapper.grow
\* Mutant of SpawnOk: the status is saved as RUNNING after the start.
SpawnOkRunning ==
    /\ pc = "Popen"
    /\ proc' = "running"
    /\ seen' = {}
    /\ status' = "RUNNING"
    /\ pc' = "process_hits"
    /\ UNCHANGED <<ensemble, yielded, exitcode, returncode, files, todo, drain, txnOpen,
                   pending, committed, err, raised, ingestCount, readLen,
                   passStartSeen, passesAfterExit, failed>>
    /\ UNCHANGED jobVars

\* Line 46-47: subprocess.Popen(args) starts the binary; seen = set().
SpawnOk ==
    /\ pc = "Popen"
    /\ proc' = "running"
    /\ seen' = {}
    /\ pc' = "process_hits"
    /\ UNCHANGED <<ensemble, yielded, status, exitcode, returncode, files, todo, drain, txnOpen,
                   pending, committed, err, raised, ingestCount, readLen,
                   passStartSeen, passesAfterExit, failed>>
    /\ UNCHANGED jobVars

\* Line 46: subprocess.Popen(args) raises (binary missing or not executable).
SpawnFail ==
    /\ pc = "Popen"
    /\ err' = "SpawnError"
    /\ pc' = "except"
    /\ UNCHANGED <<ensemble, yielded, status, proc, exitcode, returncode, files, seen, todo, drain,
                   txnOpen, pending, committed, raised, ingestCount, readLen,
                   passStartSeen, passesAfterExit, failed>>
    /\ UNCHANGED jobVars

\* Lines 85-86: process_hits opens the transaction and lists the directory.
ProcessHitsBegin ==
    /\ pc = "process_hits"
    /\ txnOpen' = TRUE
    /\ todo' = Glob
    /\ passStartSeen' = seen
    /\ passesAfterExit' = IF drain THEN passesAfterExit + 1 ELSE passesAfterExit
    /\ pc' = "for_hit_file"
    /\ UNCHANGED <<ensemble, yielded, status, proc, exitcode, returncode, files, seen, drain,
                   pending, committed, err, raised, ingestCount, readLen, failed>>
    /\ UNCHANGED jobVars

\* Lines 86-87: the iteration reaches a file that is already in seen_files.
SkipSeenFile ==
    /\ pc = "for_hit_file"
    /\ \E f \in todo :
          /\ ~IsNew(f, seen)
          /\ todo' = todo \ {f}
    /\ UNCHANGED <<ensemble, yielded, pc, status, proc, exitcode, returncode, files, seen, drain,
                   txnOpen, pending, committed, err, raised, ingestCount,
                   readLen, passStartSeen, passesAfterExit, failed>>
    /\ UNCHANGED jobVars

\* Mutant of IngestFile: the transaction is per file, the hits of a file are
\* committed as soon as add_hits returns.
IngestFileCommitEach ==
    /\ pc = "for_hit_file"
    /\ \E f \in todo :
          /\ IsNew(f, seen)
          /\ yielded' = Append(yielded, f)
          /\ AddHits(f, files[f]).ok
          /\ committed' = committed \o AddHits(f, files[f]).saved
          /\ seen' = MarkSeen(seen, f)
          /\ todo' = todo \ {f}
          /\ ingestCount' = [ingestCount EXCEPT ![f] = @ + 1]
          /\ readLen' = [readLen EXCEPT ![f] = Len(files[f])]
    /\ UNCHANGED <<ensemble, pc, status, proc, exitcode, returncode, files, drain, txnOpen,
                   pending, err, raised, passStartSeen, passesAfterExit, failed>>
    /\ UNCHANGED jobVars

\* Lines 87-89: add_hits reads the file as it is now and saves its hits;
\* the file is added to seen_files.
IngestFile ==
    /\ pc = "for_hit_file"
    /\ \E f \in todo :
          /\ IsNew(f, seen)
          /\ yielded' = Append(yielded, f)
          /\ AddHits(f, files[f]).ok
          /\ pending' = pending \o AddHits(f, files[f]).saved
          /\ seen' = MarkSeen(seen, f)
          /\ todo' = todo \ {f}
          /\ ingestCount' = [ingestCount EXCEPT ![f] = @ + 1]
          /\ readLen' = [readLen EXCEPT ![f] = Len(files[f])]
    /\ UNCHANGED <<ensemble, pc, status, proc, exitcode, returncode, files, drain, txnOpen,
                   committed, err, raised, passStartSeen, passesAfterExit, failed>>
    /\ UNCHANGED jobVars

\* Lines 85-88: add_hits raises on a record; the exception leaves the
\* transaction.atomic() block, which rolls back, and then grow.
IngestFileFail ==
    /\ pc = "for_hit_file"
    /\ \E f \in todo :
          /\ IsNew(f, seen)
          /\ yielded' = Append(yielded, f)
          /\ ~AddHits(f, files[f]).ok
          /\ committed' = Rollback(committed, pending \o AddHits(f, files[f]).saved)
          /\ failed' = <<f, AddHits(f, files[f]).at>>
          /\ err' = AddHits(f, files[f]).error
    /\ pending' = <<>>
    /\ txnOpen' = FALSE
    /\ pc' = "except"
    /\ UNCHANGED <<ensemble, status, proc, exitcode, returncode, files, seen, todo, drain,
                   raised, ingestCount, readLen, passStartSeen, passesAfterExit>>
    /\ UNCHANGED jobVars

\* Mutant of ProcessHitsEnd: the hits are committed but the transaction is
\* not closed when the pass is over.
ProcessHitsEndKeepsOpen ==
    /\ pc = "for_hit_file"
    /\ todo = {}
    /\ committed' = Commit(committed, pending)
    /\ pending' = <<>>
    /\ txnOpen' = TRUE
    /\ pc' = IF drain THEN "returncode" ELSE "sleep"
    /\ yielded' = <<>>
    /\ UNCHANGED <<ensemble, status, proc, exitcode, returncode, files, seen, todo, drain,
                   err, raised, ingestCount, readLen, passStartSeen,
                   passesAfterExit, failed>>
    /\ UNCHANGED jobVars

\* Line 85: the for loop is exhausted; the transaction commits.  After the
\* pass of line 49 control goes to the sleep, after that of line 53 to line 55.
ProcessHitsEnd ==
    /\ pc = "for_hit_file"
    /\ todo = {}
    /\ committed' = Commit(committed, pending)
    /\ pending' = <<>>
    /\ txnOpen' = FALSE
    /\ pc' = IF drain THEN "returncode" ELSE "sleep"
    /\ yielded' = <<>>
    /\ UNCHANGED <<ensemble, status, proc, exitcode, returncode, files, seen, todo, drain,
                   err, raised, ingestCount, readLen, passStartSeen,
                   passesAfterExit, failed>>
    /\ UNCHANGED jobVars

\* Line 50: time.sleep(1).
Sleep ==
    /\ pc = "sleep"
    /\ pc' = "poll"
    /\ UNCHANGED <<ensemble, yielded, status, proc, exitcode, returncode, files, seen, todo, drain,
                   txnOpen, pending, committed, err, raised, ingestCount,
                   readLen, passStartSeen, passesAfterExit, failed>>
    /\ UNCHANGED jobVars

\* Lines 51-52: process.poll() is None, the loop goes on.
PollRunning ==
    /\ pc = "poll"
    /\ proc = "running"
    /\ pc' = "process_hits"
    /\ UNCHANGED <<ensemble, yielded, status, proc, exitcode, returncode, files, seen, todo, drain,
                   txnOpen, pending, committed, err, raised, ingestCount,
                   readLen, passStartSeen, passesAfterExit, failed>>
    /\ UNCHANGED jobVars

\* Mutant of PollExited: the result of poll() is ignored, the loop never breaks.
PollExitedIgnored ==
    /\ pc = "poll"
    /\ proc = "exited"
    /\ pc' = "process_hits"
    /\ UNCHANGED <<ensemble, yielded, status, proc, exitcode, returncode, files, seen, todo, drain,
                   txnOpen, pending, committed, err, raised, ingestCount,
                   readLen, passStartSeen, passesAfterExit, failed>>
    /\ UNCHANGED jobVars

\* Mutant of PollExited: line 53 is dropped, no pass follows the break.
PollExitedNoDrain ==
    /\ pc = "poll"
    /\ proc = "exited"
    /\ returncode' = {exitcode}
    /\ drain' = TRUE
    /\ pc' = "returncode"
    /\ UNCHANGED <<ensemble, yielded, status, proc, exitcode, files, seen, todo, txnOpen, pending,
                   committed, err, raised, ingestCount, readLen, passStartSeen,
                   passesAfterExit, failed>>
    /\ UNCHANGED jobVars

\* Mutant of PollExited: the return code is checked before the last pass.
PollExitedCheckFirst ==
    /\ pc = "poll"
    /\ proc = "exited"
    /\ returncode' = {exitcode}
    /\ drain' = TRUE
    /\ IF exitcode > 0
       THEN err' = "CalledProcessError" /\ pc' = "except"
       ELSE err' = err /\ pc' = "process_hits"
    /\ UNCHANGED <<ensemble, yielded, status, proc, exitcode, files, seen, todo, txnOpen, pending,
                   committed, raised, ingestCount, readLen, passStartSeen,
                   passesAfterExit, failed>>
    /\ UNCHANGED jobVars

\* Lines 51-53: process.poll() returns the exit code; break, then the last
\* process_hits call.
PollExited ==
    /\ pc = "poll"
    /\ proc = "exited"
    /\ returncode' = {exitcode}
    /\ drain' = TRUE
    /\ pc' = "process_hits"
    /\ UNCHANGED <<ensemble, yielded, status, proc, exitcode, files, seen, todo, txnOpen, pending,
                   committed, err, raised, ingestCount, readLen, passStartSeen,
                   passesAfterExit, failed>>
    /\ UNCHANGED jobVars

\* Lines 55-58: a positive return code raises CalledProcessError.
CheckReturncode ==
    /\ pc = "returncode"
    /\ \E rc \in returncode :
          IF ReturncodeRaises(rc)
          THEN /\ err' = "CalledProcessError"
               /\ pc' = "except"
          ELSE /\ err' = err
               /\ pc' = "success"
    /\ UNCHANGED <<ensemble, yielded, status, proc, exitcode, returncode, files, seen, todo, drain,
                   txnOpen, pending, committed, raised, ingestCount, readLen,
                   passStartSeen, passesAfterExit, failed>>
    /\ UNCHANGED jobVars

\* ------------------------------------------------------------ tasks.grow
\* tasks.py lines 46-47: grow returned; status SUCCESS is saved.
TaskSuccess ==
    /\ pc = "success"
    /\ status' = "SUCCESS"
    /\ pc' = "done"
    /\ UNCHANGED <<ensemble, yielded, proc, exitcode, returncode, files, seen, todo, drain, txnOpen,
                   pending, committed, err, raised, ingestCount, readLen,
                   passStartSeen, passesAfterExit, failed>>
    /\ UNCHANGED jobVars

\* Mutant of TaskExcept: the error is logged and swallowed, line 52 is dropped.
TaskExceptNoRaise ==
    /\ pc = "except"
    /\ status' = "FAILURE"
    /\ pc' = "done"
    /\ UNCHANGED <<ensemble, yielded, proc, exitcode, returncode, files, seen, todo, drain, txnOpen,
                   pending, committed, err, raised, ingestCount, readLen,
                   passStartSeen, passesAfterExit, failed>>
    /\ UNCHANGED jobVars

\* tasks.py lines 48-52: grow raised; status FAILURE is saved and the error
\* is raised again.
TaskExcept ==
    /\ pc = "except"
    /\ status' = "FAILURE"
    /\ raised' = err
    /\ pc' = "done"
    /\ UNCHANGED <<ensemble, yielded, proc, exitcode, returncode, files, seen, todo, drain, txnOpen,
                   pending, committed, err, ingestCount, readLen, passStartSeen,
                   passesAfterExit, failed>>
    /\ UNCHANGED jobVars

Next ==
    \/ ProdCreate
    \/ ProdAppend
    \/ ProdExit
    \/ SpawnOk
    \/ SpawnFail
    \/ ProcessHitsBegin
    \/ SkipSeenFile
    \/ IngestFile
    \/ IngestFileFail
    \/ ProcessHitsEnd
    \/ Sleep
    \/ PollRunning
    \/ PollExited
    \/ CheckReturncode
    \/ TaskSuccess
    \/ TaskExcept

Spec == Init /\ [][Next]_vars

\* The steps of the control thread (tasks.grow and FastGrowWrapper.grow).
ControlNext ==
    \/ SpawnOk
    \/ SpawnFail
    \/ ProcessHitsBegin
    \/ SkipSeenFile
    \/ IngestFile
    \/ IngestFileFail
    \/ ProcessHitsEnd
    \/ Sleep
    \/ PollRunning
    \/ PollExited
    \/ CheckReturncode
    \/ TaskSuccess
    \/ TaskExcept

\* The control thread is never blocked for ever: Popen, the store, sleep(1)
\* and poll() return.  Nothing is assumed of the binary.
FairSpec == Spec /\ WF_vars(ControlNext)

\* ------------------------------------------------------------ one pass over given data
\* Property blocks of the fragments a result file may hold when it is read:
\* with and without the Score block, with texts that are no numbers, with
\* and without the blocks of the complexes; <<>> is a fragment of white space.
ParseBlocks ==
    { <<Block("Score", "12.5")>>,
      <<Block("Score", "n/a")>>,
      <<Block("Score", "12.5"), Block("4AGN", "8.1"), Block("4AGM", "5.0")>>,
      <<Block("Score", "12.5"), Block("4AGN", "8.1")>>,
      <<Block("Score", "12.5"), Block("4AGN", "8.1"), Block("4AGM", "n/a")>>,
      <<Block("4AGN", "8.1"), Block("4AGM", "5.0")>>,
      <<>> }

\* The fragments before the last one are records with their delimiter; the
\* last one may be read before its delimiter is written.
RECURSIVE ParseData(_)
ParseData(n) ==
    IF n = 1
    THEN {<<Rec(b, t)>> : b \in ParseBlocks, t \in BOOLEAN}
    ELSE ParseData(n - 1) \cup
         {<<Rec(b, TRUE)>> \o d : b \in ParseBlocks \ {<<>>},
                                  d \in {x \in ParseData(n - 1) : Len(x) = n - 1}}

\* grow is about to call process_hits for the first time, the binary is
\* running and has written one result file so far.
ParseInit ==
    /\ ensemble \in Ensembles
    /\ pc = "process_hits"
    /\ status = InitStatus
    /\ proc = "running"
    /\ exitcode = 0
    /\ returncode = {}
    /\ files \in {<<d>> : d \in ParseData(MaxDataLen)}
    /\ seen = {}
    /\ todo = {}
    /\ drain = FALSE
    /\ txnOpen = FALSE
    /\ pending = <<>>
    /\ committed = <<>>
    /\ err = "none"
    /\ raised = "none"
    /\ ingestCount = [f \in FileIds |-> 0]
    /\ readLen = [f \in FileIds |-> 0]
    /\ passStartSeen = {}
    /\ passesAfterExit = 0
    /\ failed = <<>>
    /\ yielded = <<>>
    /\ disk = {}
    /\ jpc = [j \in Jobs |-> "process_hits"]
    /\ jseen = [j \in Jobs |-> {}]
    /\ jtodo = [j \in Jobs |-> {}]
    /\ jhits = {}

\* One call of process_hits, and the end of the task when it raises.
ParseNext ==
    \/ ProcessHitsBegin
    \/ IngestFile
    \/ IngestFileFail
    \/ ProcessHitsEnd
    \/ TaskExcept

ParseSpec == ParseInit /\ [][ParseNext]_vars

\* ------------------------------------------------------------ two growings at once
\* Mutant of JobDirectory: the results are written to one fixed directory.
JobDirectoryShared(j) == 0

\* Line 26: TemporaryDirectory() gives every call of grow a directory of its own.
JobDirectory(j) == j

\* Mutant of JobSeenAdd: seen is one module-level set for all calls of grow.
JobSeenAddShared(js, j, file) == [k \in Jobs |-> js[k] \cup {file}]

\* Lines 47 and 89: seen is a local of grow, seen_files.add changes the set
\* of the call that ingested the file.
JobSeenAdd(js, j, file) == [js EXCEPT ![j] = @ \cup {file}]

\* Lines 27-46: the binary started by grow call j creates a result file in
\* the directory it was given by --results.
JobWrite(j) ==
    /\ jpc[j] # "done"
    /\ \E n \in 1..MaxJobFiles :
          /\ [dir |-> JobDirectory(j), name |-> n, writer |-> j] \notin disk
          /\ disk' = disk \cup {[dir |-> JobDirectory(j), name |-> n, writer |-> j]}
    /\ UNCHANGED <<jpc, jseen, jtodo, jhits>>
    /\ UNCHANGED runVars

\* Lines 85-86: process_hits of call j lists its directory.
JobProcessHitsBegin(j) ==
    /\ jpc[j] = "process_hits"
    /\ jtodo' = [jtodo EXCEPT ![j] = {file \in disk : file.dir = JobDirectory(j)}]
    /\ jpc' = [jpc EXCEPT ![j] = "for_hit_file"]
    /\ UNCHANGED <<disk, jseen, jhits>>
    /\ UNCHANGED runVars

\* Lines 86-89 and 111-119: the next listed file is passed over when it is in
\* seen, else its hits are saved with growing=growing and it is added to seen.
JobIngest(j) ==
    /\ jpc[j] = "for_hit_file"
    /\ \E file \in jtodo[j] :
          /\ jtodo' = [jtodo EXCEPT ![j] = @ \ {file}]
          /\ IF IsNew(file, jseen[j])
             THEN /\ jhits' = jhits \cup {[growing |-> j, file |-> file]}
                  /\ jseen' = JobSeenAdd(jseen, j, file)
             ELSE UNCHANGED <<jhits, jseen>>
    /\ UNCHANGED <<disk, jpc>>
    /\ UNCHANGED runVars

\* Lines 48-53: the pass of call j is over; the loop goes on, or the binary
\* has exited and this was the last pass.
JobProcessHitsEnd(j) ==
    /\ jpc[j] = "for_hit_file"
    /\ jtodo[j] = {}
    /\ \E next \in {"process_hits", "done"} : jpc' = [jpc EXCEPT ![j] = next]
    /\ UNCHANGED <<disk, jseen, jtodo, jhits>>
    /\ UNCHANGED runVars

TwoJobsNext ==
    \E j \in Jobs :
        \/ JobWrite(j)
        \/ JobProcessHitsBegin(j)
        \/ JobIngest(j)
        \/ JobProcessHitsEnd(j)

\* Two grow tasks run at the same time in one worker process.
TwoJobsSpec == Init /\ [][TwoJobsNext]_vars

\* ------------------------------------------------------------ type invariant
TypeOK ==
    /\ pc \in {"Popen", "process_hits", "for_hit_file", "sleep", "poll",
               "returncode", "success", "except", "done"}
    /\ status \in {"PENDING", "RUNNING", "SUCCESS", "FAILURE"}
    /\ proc \in {"none", "running", "exited"}
    /\ seen \subseteq FileIds
    /\ todo \subseteq FileIds
    /\ err \in {"none", "SpawnError", "CastError", "IntegrityError", "CalledProcessError"}
    /\ ensemble \in Ensembles

\* ------------------------------------------------------------ claims
\* Every record add_hits read from file f is in the store exactly once.
ReadHitsCommittedOnce(f) ==
    \A i \in 1..readLen[f] : CountHit(committed, f, i) = 1

\* Every record the binary wrote to file f is in the store exactly once.
AllRecordsCommittedOnce(f) ==
    \A i \in 1..Len(files[f]) : CountHit(committed, f, i) = 1

\* The control thread is inside the loop of lines 48-52.
InPollLoop == ~drain /\ pc \in {"process_hits", "for_hit_file", "sleep", "poll"}

\* The drain pass of line 53 has completed.
DrainDone == drain /\ pc \in {"returncode", "success", "except", "done"} /\ err # "CastError"

C2_NoRecordLost ==
    (pc = "done" /\ err = "none" /\ returncode = {0}) =>
        \A f \in Glob : AllRecordsCommittedOnce(f)

\* C3: final drain.  After poll() reported the exit, exactly one more pass
\* runs before the return code is looked at, and when it is over every file
\* that was not in seen when it began was ingested in full, and every file
\* of the directory is in seen.
C3_FinalDrain ==
    /\ passesAfterExit <= 1
    /\ (drain /\ pc = "process_hits") => passesAfterExit = 0
    /\ pc \in {"returncode", "success"} =>
          /\ passesAfterExit = 1
          /\ proc = "exited"
          /\ Glob \subseteq seen
          /\ \A f \in Glob \ passStartSeen :
                /\ ingestCount[f] = 1
                /\ readLen[f] = Len(files[f])
                /\ AllRecordsCommittedOnce(f)

\* C3 witness: the return code is about to be checked and the drain pass
\* ingested a file with hits that no pass of the loop had seen.
C3_Witness ==
    /\ pc = "returncode"
    /\ \E f \in seen \ passStartSeen : readLen[f] > 0

\* C4: exit-code classification.  A finished job whose ingestion did not
\* fail is SUCCESS exactly when the exit code was 0; for every other exit
\* code, positive or negative, CalledProcessError was raised and the job is
\* FAILURE.
C4_ExitCodeClassification ==
    (pc = "done" /\ returncode # {} /\ err # "CastError") =>
        /\ status = "SUCCESS" <=> returncode = {0}
        /\ returncode # {0} => (status = "FAILURE" /\ raised = "CalledProcessError")

\* C5 as stated: the status is RUNNING in every state in which the poll loop
\* is executing, and SUCCESS and FAILURE are held only by the finished task.
C5_RunningInPollLoop ==
    /\ InPollLoop => status = "RUNNING"
    /\ status \in {"SUCCESS", "FAILURE"} => pc = "done"

\* C5 amended: the status is never RUNNING; it keeps its initial value
\* PENDING in every state in which the poll loop or the drain is executing,
\* and SUCCESS and FAILURE are never left.
C5_PendingUntilTerminal ==
    /\ [](status # "RUNNING")
    /\ [](pc \in {"process_hits", "for_hit_file", "sleep", "poll", "returncode"}
            => status = "PENDING")
    /\ [][(status \in {"SUCCESS", "FAILURE"}) => status' = status]_vars

\* C5 witness: the poll loop is executing after a pass that committed hits.
C5_Witness ==
    InPollLoop /\ pc = "poll" /\ Len(committed) > 0 /\ status = "PENDING"

\* C6: failure propagation.  Once an error was raised in grow, no pass is
\* running or runs any more (nothing is ingested, committed or marked seen),
\* the status is never SUCCESS, and when the task is over the status is
\* FAILURE and the error raised to the caller is that same error.
C6_FailurePropagation ==
    /\ [](err # "none" =>
            /\ pc \in {"except", "done"}
            /\ ~txnOpen /\ pending = <<>>
            /\ status # "SUCCESS"
            /\ pc = "done" => (status = "FAILURE" /\ raised = err))
    /\ [][(err # "none") =>
            UNCHANGED <<err, committed, seen, ingestCount, passesAfterExit>>]_vars

\* C6 witness: the task is over after a cast error in the drain pass.
C6_Witness ==
    pc = "done" /\ drain /\ err = "CastError" /\ raised = "CastError"

\* C7: per-file all-or-nothing.  When the extraction of a record of a file
\* raised, no hit of that file is in the store or saved in a transaction,
\* also not the hits of the records before the failing one.
C7_PerFileAllOrNothing ==
    failed # <<>> =>
        /\ \A i \in 1..Len(committed) : committed[i].file # failed[1]
        /\ \A i \in 1..Len(pending) : pending[i].file # failed[1]

\* C7 witness: the task is over and the failing record was not the first of
\* its file, so that hits of the file were saved before it.
C7_Witness ==
    pc = "done" /\ failed # <<>> /\ failed[2] >= 2

C9_NonZeroExitAfterIngestion ==
    /\ [](err = "CalledProcessError" =>
            /\ \E rc \in returncode : rc > 0
            /\ passesAfterExit = 1
            /\ ~txnOpen /\ pending = <<>>
            /\ \A f \in Glob : f \in seen /\ ReadHitsCommittedOnce(f)
            /\ pc = "done" => (status = "FAILURE" /\ raised = "CalledProcessError"))
    /\ [][(err = "CalledProcessError") => committed' = committed]_vars

\* C9 witness: the job ended FAILURE by a positive exit code with hits
\* committed by the loop and by the drain pass.
C9_Witness ==
    /\ pc = "done" /\ status = "FAILURE" /\ err = "CalledProcessError"
    /\ \E f \in passStartSeen, g \in seen \ passStartSeen :
          readLen[f] > 0 /\ readLen[g] > 0

\* C10: the seen set is monotonic.  No step removes a file from seen, and no
\* step ingests, or fails to ingest, a file that is already in seen.
C10_SeenMonotonic ==
    [][/\ seen \subseteq seen'
       /\ \A f \in seen : ingestCount'[f] = ingestCount[f]
       /\ failed' # failed => failed'[1] \notin seen]_vars

\* C10 witness: a later pass listed the files of seen again and passed over
\* all of them.
C10_Witness ==
    /\ pc = "for_hit_file"
    /\ passStartSeen # {}
    /\ passStartSeen \cap todo = {}
    /\ \A f \in passStartSeen : ingestCount[f] = 1

\* The record of the result file that hit h was made from.
SourceOf(h) == files[h.file][h.idx]

\* The hits saved so far, committed or not.
SavedHits == committed \o pending

\* C12: conditional ensemble scores.  The mapping of every saved hit is
\* empty when the ensemble has one member; when it has more, the mapping has
\* exactly the member names as keys, and for every member whose block is in
\* the record the value is the float of the text of that block.
C12_ConditionalEnsembleScores ==
    \A j \in 1..Len(SavedHits) :
        LET h == SavedHits[j] IN
        /\ Len(ensemble) = 1 => DOMAIN h.ensemble_scores = {}
        /\ Len(ensemble) > 1 =>
              /\ DOMAIN h.ensemble_scores = Members
              /\ \A n \in Members : \A k \in 1..Len(SourceOf(h).props) :
                    SourceOf(h).props[k].key = Upper(n) =>
                        h.ensemble_scores[n] = <<Float(SourceOf(h).props[k].value)>>

\* C12 witness: a committed hit of a two-member ensemble made from a record
\* with the blocks of both members.
C12_Witness ==
    /\ Len(ensemble) = 2
    /\ \E j \in 1..Len(committed) :
          /\ Len(SourceOf(committed[j]).props) = 3
          /\ committed[j].ensemble_scores["4agm"] = <<50>>

\* C14: a truncated last record is never persisted.  No hit in the store
\* was made from a fragment that was read without its delimiter.
C14_TruncatedNeverPersisted ==
    \A j \in 1..Len(committed) : SourceOf(committed[j]).term

\* C15: a missing per-member score is an error.  No saved hit has a mapping
\* that holds no value (None) for a member of the ensemble.
C15_MissingMemberScoreIsError ==
    \A j \in 1..Len(SavedHits) :
        \A n \in DOMAIN SavedHits[j].ensemble_scores :
            SavedHits[j].ensemble_scores[n] # <<>>

\* Position of file f in the sequence yielded (0 when it is not in it).
RECURSIVE PosIn(_, _)
PosIn(seq, f) ==
    IF seq = <<>> THEN 0
    ELSE IF seq[Len(seq)] = f /\ PosIn(SubSeq(seq, 1, Len(seq) - 1), f) = 0
         THEN Len(seq)
         ELSE PosIn(SubSeq(seq, 1, Len(seq) - 1), f)

\* C11: ordering of visibility.  Every hit in the store is of a file that is
\* in seen; the loop yields no file as new twice, neither within a pass nor
\* after an earlier pass put it in seen; and the hits of a pass are saved
\* file by file, after those of the earlier passes, in the order in which the
\* loop yielded the files as new.
C11_VisibilityOrdering ==
    /\ \A j \in 1..Len(committed) : committed[j].file \in seen
    /\ \A j, k \in 1..Len(yielded) : j # k => yielded[j] # yielded[k]
    /\ \A j \in 1..Len(yielded) : yielded[j] \notin passStartSeen
    /\ \A j, k \in 1..Len(SavedHits) :
          (j < k /\ SavedHits[k].file \in passStartSeen) =>
              SavedHits[j].file \in passStartSeen
    /\ \A j, k \in 1..Len(pending) :
          j < k => /\ PosIn(yielded, pending[j].file) > 0
                   /\ PosIn(yielded, pending[j].file) <= PosIn(yielded, pending[k].file)

\* C11 witness: one pass saved hits of two files, and the file that was
\* created later was yielded and ingested first; hits of an earlier pass are
\* in the store.
C11_Witness ==
    /\ Len(committed) >= 1
    /\ Len(pending) >= 2
    /\ pending[1].file > pending[Len(pending)].file
    /\ PosIn(yielded, pending[1].file) < PosIn(yielded, pending[Len(pending)].file)

\* add_hits raised in some pass.
IngestionFailed == err \in {"CastError", "IntegrityError"}

\* The files the current (or last) pass added to seen.
PassFiles == seen \ passStartSeen

\* Some hit of file f is in the store.
Visible(f) == \E j \in 1..Len(committed) : committed[j].file = f

C16_NoTransactionAcrossSleep ==
    /\ txnOpen <=> pc = "for_hit_file"
    /\ pc \in {"sleep", "poll"} => (~txnOpen /\ pending = <<>>)

\* C16 witness: the control thread sleeps after a pass that committed hits.
C16_Witness ==
    pc = "sleep" /\ ~txnOpen /\ Len(committed) > 0

\* C19: pass-level atomic visibility.  While a pass runs, no hit of a file it
\* ingested is in the store; when it has ended normally, the hits of all the
\* files it ingested are; so no two files of one pass differ in visibility.
C19_PassLevelVisibility ==
    /\ txnOpen => \A f \in PassFiles : ~Visible(f)
    /\ (~txnOpen /\ ~IngestionFailed) => \A f \in PassFiles : ReadHitsCommittedOnce(f)
    /\ \A f, g \in PassFiles :
          (readLen[f] > 0 /\ readLen[g] > 0) => (Visible(f) <=> Visible(g))

\* C19 witness: a pass that ingested two files with hits has ended and the
\* hits of both are in the store.
C19_Witness ==
    /\ ~txnOpen
    /\ \E f, g \in PassFiles :
          f # g /\ readLen[f] > 0 /\ readLen[g] > 0 /\ Visible(f) /\ Visible(g)

\* C20: terminal status implies the child has stopped.  Whenever the process
\* was spawned and the status is SUCCESS or FAILURE, the process has exited.
C20_TerminalImpliesChildStopped ==
    (proc # "none" /\ status \in {"SUCCESS", "FAILURE"}) => proc = "exited"

\* C18: termination.  With a control thread that keeps taking steps, once
\* the process has terminated the task reaches a terminal status; and the
\* status is terminal while the process still runs only after an ingestion
\* error (there is no timeout).
C18_Termination ==
    /\ (proc = "exited") ~> (status \in {"SUCCESS", "FAILURE"})
    /\ []((status \in {"SUCCESS", "FAILURE"} /\ proc = "running") => IngestionFailed)

\* C18 witness: the process exited during the loop and the task has reached
\* a terminal status after the drain pass.
C18_Witness ==
    pc = "done" /\ proc = "exited" /\ drain /\ status = "SUCCESS" /\ Len(committed) > 0

\* C17: job isolation.  Every file in the seen set of a call of grow was
\* written by the binary of that call, and every hit is attached to the
\* growing whose binary wrote the file it was read from.
C17_JobIsolation ==
    /\ \A j \in Jobs : \A file \in jseen[j] : file.writer = j
    /\ \A h \in jhits : h.file.writer = h.growing

\* C17 witness: both calls have ingested a file of the same name while the
\* other call was inside a pass.
C17_Witness ==
    /\ \E h, g \in jhits :
          h.growing = 1 /\ g.growing = 2 /\ h.file.name = g.file.name
    /\ jpc[1] = "for_hit_file" /\ jpc[2] = "for_hit_file"

====
